---- MODULE Spec2Model ----
(***************************************************************************)
(* A model of the gwn front end: the Scanner (src/src/scanner.rs), the     *)
(* Pratt Parser (src/src/parser.rs), the AST constructors (src/src/ast.rs) *)
(* and the scanner driver gwn::run (src/src/lib.rs).                       *)
(*                                                                         *)
(* The source text is a sequence of one-character strings.  Positions are   *)
(* 0-based as in the Rust code; CharAt converts to TLA+'s 1-based          *)
(* sequences.  An out-of-range index of the source vector, an unwrap() of  *)
(* an Err and an integer literal out of i32 range all panic in Rust; a     *)
(* panic is the result tag "Panic" and ends the run in pc = "panicked".     *)
(***************************************************************************)
EXTENDS Integers, Sequences, FiniteSets, TLC

VARIABLES
    source,     \* the source text, Vec<char>
    entry,      \* which entry point runs: "run" (gwn::run) or "parse" (Parser::parse)
    pc,         \* "start", "loop", "done" or "panicked"
    scanner,    \* the Scanner's start, current, line, col
    result,     \* what the last scan_token() call of gwn::run returned
    previous,   \* Parser.previous
    current,    \* Parser.current
    ast,        \* the Vec<Expr> that parse() builds and returns
    outcome,    \* what the last parse_precedence(Or) call of parse() returned
    reports,    \* the error channel: every report_in call, in order
    scanlog     \* every scan_token() call made so far and what it returned

vars == <<source, entry, pc, scanner, result, previous, current, ast, outcome,
          reports, scanlog>>

(***************************************************************************)
(* Characters                                                              *)
(***************************************************************************)
Digits == {"0", "1", "2", "3", "4", "5", "6", "7", "8", "9"}

Letters == {"a", "b", "c", "d", "e", "f", "g", "h", "i", "j", "k", "l", "m",
            "n", "o", "p", "q", "r", "s", "t", "u", "v", "w", "x", "y", "z"}

is_identifier_start(c) == c \in Letters \/ c = "_"

is_identifier_body(c) == is_identifier_start(c) \/ c \in Digits

(***************************************************************************)
(* Tokens, scanner errors and the three outcomes of a scanner call         *)
(***************************************************************************)
Token(kind, line, col, lexeme) ==
    [kind |-> kind, line |-> line, col |-> col, lexeme |-> lexeme]

NoneToken == Token("None", 0, 0, <<>>)

\* msg is modelled by the pair (kind, cited): the fixed text of the message
\* and the character formatted into it ("" when the text has no character).
ScannerError(kind, cited, place, line, col) ==
    [kind |-> kind, cited |-> cited, place |-> place, line |-> line, col |-> col]

NoError == ScannerError("None", "", "", 0, 0)

Ok(sc, tok) == [sc |-> sc, tag |-> "Ok", tok |-> tok, err |-> NoError]

Err(sc, err) == [sc |-> sc, tag |-> "Err", tok |-> NoneToken, err |-> err]

Panic(sc) == [sc |-> sc, tag |-> "Panic", tok |-> NoneToken, err |-> NoError]

(***************************************************************************)
(* Scanner                                                                 *)
(***************************************************************************)
\* let v = ...; the rest of the body F sees the value as its argument.
With(v, F(_)) == F(v)

Scanner_new == [start |-> 0, current |-> 0, line |-> 1, col |-> 0]

\* self.source[i] is defined only for i < len; anything else panics.
InBounds(src, i) == i < Len(src)

CharAt(src, i) == src[i + 1]

Scanner_is_at_end(src, sc) == sc.current >= Len(src)

\* The state change of advance(); its callers test InBounds first, which is
\* the bounds check of the index expression in advance().
Scanner_advance(sc) == [sc EXCEPT !.current = @ + 1, !.col = @ + 1]

Scanner_make_token(src, sc, kind) ==
    Token(kind, sc.line, sc.col, SubSeq(src, sc.start + 1, sc.current))

Scanner_make_error(src, sc, kind, cited) ==
    IF ~InBounds(src, sc.current)
    THEN Panic(sc)
    ELSE Err(sc, ScannerError(kind, cited, CharAt(src, sc.current), sc.line, sc.col))

Scanner_consume(src, sc, expected) ==
    IF ~InBounds(src, sc.current)
    THEN [sc |-> sc, matched |-> FALSE, panic |-> TRUE]
    ELSE IF CharAt(src, sc.current) = expected
         THEN [sc |-> Scanner_advance(sc), matched |-> TRUE, panic |-> FALSE]
         ELSE [sc |-> sc, matched |-> FALSE, panic |-> FALSE]

\* The inner loop of the '#' arm: while self.peek() != '\n' { advance }
RECURSIVE Scanner_skip_comment(_, _)
Scanner_skip_comment(src, sc) ==
    IF ~InBounds(src, sc.current)
    THEN [sc |-> sc, panic |-> TRUE]
    ELSE IF CharAt(src, sc.current) = "\n"
         THEN [sc |-> sc, panic |-> FALSE]
         ELSE Scanner_skip_comment(src, Scanner_advance(sc))

RECURSIVE Scanner_skip_whitespace(_, _)
Scanner_skip_whitespace(src, sc) ==
    IF Scanner_is_at_end(src, sc)
    THEN [sc |-> sc, panic |-> FALSE]
    ELSE IF CharAt(src, sc.current) \in {" ", "\r", "\t"}
         THEN Scanner_skip_whitespace(src, Scanner_advance(sc))
         ELSE IF CharAt(src, sc.current) = "#"
              THEN With(Scanner_skip_comment(src, sc), LAMBDA r :
                       IF r.panic THEN r ELSE Scanner_skip_whitespace(src, r.sc))
              ELSE [sc |-> sc, panic |-> FALSE]

\* while self.peek().is_digit(10) { advance }
RECURSIVE Scanner_scan_digits(_, _)
Scanner_scan_digits(src, sc) ==
    IF ~InBounds(src, sc.current)
    THEN [sc |-> sc, panic |-> TRUE]
    ELSE IF CharAt(src, sc.current) \in Digits
         THEN Scanner_scan_digits(src, Scanner_advance(sc))
         ELSE [sc |-> sc, panic |-> FALSE]

Scanner_scan_number(src, sc) ==
    With(Scanner_scan_digits(src, sc), LAMBDA d1 :
        IF d1.panic THEN Panic(d1.sc)
        ELSE IF CharAt(src, d1.sc.current) = "."
             THEN IF ~InBounds(src, d1.sc.current + 1)
                  THEN Panic(d1.sc)
                  ELSE IF CharAt(src, d1.sc.current + 1) \in Digits
                       THEN With(Scanner_scan_digits(src, Scanner_advance(d1.sc)), LAMBDA d2 :
                                IF d2.panic THEN Panic(d2.sc)
                                ELSE Ok(d2.sc, Scanner_make_token(src, d2.sc, "Number")))
                       ELSE Ok(d1.sc, Scanner_make_token(src, d1.sc, "Number"))
             ELSE Ok(d1.sc, Scanner_make_token(src, d1.sc, "Number")))

\* while is_identifier_body(self.peek()) { advance }
RECURSIVE Scanner_scan_identifier_body(_, _)
Scanner_scan_identifier_body(src, sc) ==
    IF ~InBounds(src, sc.current)
    THEN [sc |-> sc, panic |-> TRUE]
    ELSE IF is_identifier_body(CharAt(src, sc.current))
         THEN Scanner_scan_identifier_body(src, Scanner_advance(sc))
         ELSE [sc |-> sc, panic |-> FALSE]

KeywordKind(lexeme) ==
    IF lexeme = <<"a", "n", "d">> THEN "And"
    ELSE IF lexeme = <<"o", "r">> THEN "Or"
    ELSE IF lexeme = <<"n", "o", "t">> THEN "Not"
    ELSE IF lexeme = <<"t", "r", "u", "e">> THEN "True"
    ELSE IF lexeme = <<"f", "a", "l", "s", "e">> THEN "False"
    ELSE "Identifier"

Scanner_scan_identifier(src, sc) ==
    With(Scanner_scan_identifier_body(src, sc), LAMBDA b :
        IF b.panic THEN Panic(b.sc)
        ELSE Ok(b.sc, Scanner_make_token(src, b.sc,
                          KeywordKind(SubSeq(src, b.sc.start + 1, b.sc.current)))))

\* One escape sequence: the character after the backslash, and the state
\* after advance() has consumed it.
RECURSIVE Scanner_scan_string_loop(_, _, _)
Scanner_scan_escape(src, sc2, escape, lexeme) ==
    IF escape = "n" THEN Scanner_scan_string_loop(src, sc2, Append(lexeme, "\n"))
    ELSE IF escape = "t" THEN Scanner_scan_string_loop(src, sc2, Append(lexeme, "\t"))
    ELSE IF escape = "r" THEN Scanner_scan_string_loop(src, sc2, Append(lexeme, "\r"))
    ELSE IF escape = "\"" THEN Scanner_scan_string_loop(src, sc2, Append(lexeme, "\""))
    ELSE Scanner_make_error(src, sc2, "UnrecognizedEscape", escape)

\* The while loop of scan_string; the lexeme built so far travels in tok.
Scanner_scan_string_loop(src, sc, lexeme) ==
    IF Scanner_is_at_end(src, sc) \/ CharAt(src, sc.current) = "\""
    THEN Ok(sc, Token("String", sc.line, sc.col, lexeme))
    ELSE IF CharAt(src, sc.current) = "\\"
         THEN IF ~InBounds(src, sc.current + 1)
              THEN Panic(Scanner_advance(sc))
              ELSE Scanner_scan_escape(src, Scanner_advance(Scanner_advance(sc)),
                                       CharAt(src, sc.current + 1), lexeme)
         ELSE Scanner_scan_string_loop(src, Scanner_advance(sc),
                                       Append(lexeme, CharAt(src, sc.current)))

Scanner_scan_string(src, sc) ==
    With(Scanner_scan_string_loop(src, sc, <<>>), LAMBDA r :
        IF r.tag # "Ok" THEN r
        ELSE IF Scanner_is_at_end(src, r.sc)
             THEN Scanner_make_error(src, r.sc, "UnterminatedString", "")
             ELSE With(Scanner_advance(r.sc), LAMBDA sc1 :
                      Ok(sc1, Token("String", sc1.line, sc1.col, r.tok.lexeme))))

\* while !self.is_at_end() && self.consume('\n') { self.line += 1 }
RECURSIVE Scanner_newline_run(_, _)
Scanner_newline_run(src, sc) ==
    IF Scanner_is_at_end(src, sc) THEN sc
    ELSE With(Scanner_consume(src, sc, "\n"), LAMBDA r :
             IF r.matched
             THEN Scanner_newline_run(src, [r.sc EXCEPT !.line = @ + 1])
             ELSE sc)

\* The arms of scan_token that make a token of one fixed character.
SingleCharKind ==
    [c \in {"{", "}", "[", "]", "(", ")", "/", "*", "^", "%", "!", ":", ",", "|", "?"} |->
        CASE c = "{" -> "LeftBrace"
          [] c = "}" -> "RightBrace"
          [] c = "[" -> "LeftSquare"
          [] c = "]" -> "RightSquare"
          [] c = "(" -> "LeftParen"
          [] c = ")" -> "RightParen"
          [] c = "/" -> "Slash"
          [] c = "*" -> "Star"
          [] c = "^" -> "Carat"
          [] c = "%" -> "Percent"
          [] c = "!" -> "Bang"
          [] c = ":" -> "Colon"
          [] c = "," -> "Comma"
          [] c = "|" -> "Pipe"
          [] c = "?" -> "Question"]

\* An arm of the shape: if self.consume(second) {two} else {one}
Scanner_one_or_two(src, sc, second, two, one) ==
    With(Scanner_consume(src, sc, second), LAMBDA r :
        IF r.panic THEN Panic(r.sc)
        ELSE IF r.matched
             THEN Ok(r.sc, Scanner_make_token(src, r.sc, two))
             ELSE Ok(r.sc, Scanner_make_token(src, r.sc, one)))

\* The '<' arm: '<=' first, then '<-', else '<'.
Scanner_less(src, sc) ==
    With(Scanner_consume(src, sc, "="), LAMBDA r1 :
        IF r1.panic THEN Panic(r1.sc)
        ELSE IF r1.matched
             THEN Ok(r1.sc, Scanner_make_token(src, r1.sc, "LessEqual"))
             ELSE Scanner_one_or_two(src, sc, "-", "LeftArrow", "Less"))

\* The '\n' arm.
Scanner_newline(src, sc) ==
    With(Scanner_newline_run(src, [sc EXCEPT !.col = 0, !.line = @ + 1]), LAMBDA n :
        Ok(n, Scanner_make_token(src, n, "Newline")))

\* scan_token from `let c = self.advance()` on: c is the character read and
\* sc the state after it.
Scanner_scan_char(src, sc, c) ==
    IF c \in Digits THEN Scanner_scan_number(src, sc)
    ELSE IF is_identifier_start(c) THEN Scanner_scan_identifier(src, sc)
    ELSE IF c \in DOMAIN SingleCharKind
         THEN Ok(sc, Scanner_make_token(src, sc, SingleCharKind[c]))
    ELSE IF c = "\"" THEN Scanner_scan_string(src, sc)
    ELSE IF c = "+" THEN Scanner_one_or_two(src, sc, "+", "PlusPlus", "Plus")
    ELSE IF c = "=" THEN Scanner_one_or_two(src, sc, "=", "EqualEqual", "Equal")
    ELSE IF c = "<" THEN Scanner_less(src, sc)
    ELSE IF c = ">" THEN Scanner_one_or_two(src, sc, "=", "GreaterEqual", "Greater")
    ELSE IF c = "-" THEN Scanner_one_or_two(src, sc, ">", "RightArrow", "Minus")
    ELSE IF c = "\n" THEN Scanner_newline(src, sc)
    ELSE Scanner_make_error(src, sc, "UnrecognizedCharacter", c)

\* A scan_token that tests for the end of the input before it sets
\* self.start, so that the Eof token is cut from the previous token's start.
Scanner_scan_token_late_start(src, sc0) ==
    With(Scanner_skip_whitespace(src, sc0), LAMBDA w :
        IF w.panic THEN Panic(w.sc)
        ELSE IF Scanner_is_at_end(src, w.sc)
             THEN Ok(w.sc, Scanner_make_token(src, w.sc, "Eof"))
             ELSE With([w.sc EXCEPT !.start = w.sc.current], LAMBDA s :
                      Scanner_scan_char(src, Scanner_advance(s), CharAt(src, s.current))))

Scanner_scan_token(src, sc0) ==
    With(Scanner_skip_whitespace(src, sc0), LAMBDA w :
        IF w.panic THEN Panic(w.sc)
        ELSE With([w.sc EXCEPT !.start = w.sc.current], LAMBDA s :
                 IF Scanner_is_at_end(src, s)
                 THEN Ok(s, Scanner_make_token(src, s, "Eof"))
                 ELSE Scanner_scan_char(src, Scanner_advance(s), CharAt(src, s.current))))

(***************************************************************************)
(* AST constructors (ast.rs)                                               *)
(***************************************************************************)
\* into_expr!: every boxed node kind becomes an Expr of type Unknown.
ConstantExpr(name) == [node |-> "Constant", typ |-> "Unknown", name |-> name]

UnaryExpr(operator, operand) ==
    [node |-> "Unary", typ |-> "Unknown", operator |-> operator, operand |-> operand]

\* A binary node that takes over the type of its left operand.
BinaryExpr_typed(left, right, operator) ==
    [node |-> "Binary", typ |-> left.typ, operator |-> operator,
     left |-> left, right |-> right]

BinaryExpr(left, right, operator) ==
    [node |-> "Binary", typ |-> "Unknown", operator |-> operator,
     left |-> left, right |-> right]

LogicalExpr(left, right, operator) ==
    [node |-> "Logical", typ |-> "Unknown", operator |-> operator,
     left |-> left, right |-> right]

ApplyExpr(arg, func, operator) ==
    [node |-> "Apply", typ |-> "Unknown", operator |-> operator,
     func |-> func, arg |-> arg]

TupleExpr(elements, paren) ==
    [node |-> "Tuple", typ |-> "Unknown", elements |-> elements, paren |-> paren]

ListExpr(elements, square) ==
    [node |-> "List", typ |-> "Unknown", elements |-> elements, square |-> square]

\* impl Into<Expr> for Literal: the type is the literal's own kind.
LiteralInt(v) == [node |-> "Literal", typ |-> "Int", lit |-> [kind |-> "Int", int |-> v]]

LiteralFloat(v) == [node |-> "Literal", typ |-> "Float", lit |-> [kind |-> "Float", float |-> v]]

LiteralBool(v) == [node |-> "Literal", typ |-> "Bool", lit |-> [kind |-> "Bool", bool |-> v]]

LiteralString(v) == [node |-> "Literal", typ |-> "String", lit |-> [kind |-> "String", str |-> v]]

NoExpr == [node |-> "None", typ |-> "Unknown"]

(***************************************************************************)
(* Number conversion: str::parse::<i32>() and str::parse::<f64>()          *)
(***************************************************************************)
I32Max == 2147483647

DigitValue(c) ==
    CASE c = "0" -> 0 [] c = "1" -> 1 [] c = "2" -> 2 [] c = "3" -> 3 [] c = "4" -> 4
      [] c = "5" -> 5 [] c = "6" -> 6 [] c = "7" -> 7 [] c = "8" -> 8 [] c = "9" -> 9

\* Checked decimal accumulation, as parse::<i32>() does it: the result is an
\* error as soon as acc * 10 + digit would exceed i32::MAX.
RECURSIVE ParseI32From(_, _)
ParseI32From(lexeme, acc) ==
    IF lexeme = <<>> THEN [ok |-> TRUE, value |-> acc]
    ELSE LET d == DigitValue(Head(lexeme)) IN
         IF acc > (I32Max - d) \div 10
         THEN [ok |-> FALSE, value |-> 0]
         ELSE ParseI32From(Tail(lexeme), acc * 10 + d)

ParseI32(lexeme) == ParseI32From(lexeme, 0)

RECURSIVE DecimalValue(_)
DecimalValue(digits) ==
    IF digits = <<>> THEN 0
    ELSE DecimalValue(SubSeq(digits, 1, Len(digits) - 1)) * 10
         + DigitValue(digits[Len(digits)])

RECURSIVE StripTrailingZeros(_)
StripTrailingZeros(digits) ==
    IF digits # <<>> /\ digits[Len(digits)] = "0"
    THEN StripTrailingZeros(SubSeq(digits, 1, Len(digits) - 1))
    ELSE digits

\* The value of a lexeme "ddd.ddd" as a decimal fraction mant / 10^scale in
\* lowest decimal form (3.140 and 3.14 are the same f64).
ParseF64(lexeme) ==
    LET dot == CHOOSE i \in 1..Len(lexeme) : lexeme[i] = "."
        frac == StripTrailingZeros(SubSeq(lexeme, dot + 1, Len(lexeme)))
    IN  [mant |-> DecimalValue(SubSeq(lexeme, 1, dot - 1) \o frac), scale |-> Len(frac)]

(***************************************************************************)
(* Rule table                                                              *)
(***************************************************************************)
PrecNone == 0
PrecOr == 1
PrecAnd == 2
PrecEquality == 3
PrecComparison == 4
PrecTerm == 5
PrecFactor == 6
PrecPower == 7
PrecApply == 8
PrecUnary == 9
PrecPrimary == 10

\* impl From<u32> for Precedence
PrecedenceFrom(x) == IF x \in 0..10 THEN x ELSE PrecNone

ParseRule(precedence, prefix, infix) ==
    [precedence |-> precedence, prefix |-> prefix, infix |-> infix]

PARSE_TABLE ==
    [k \in {"Number", "True", "False", "String", "Identifier", "LeftParen", "LeftSquare",
            "Minus", "Not", "Plus", "Slash", "Star", "Percent", "Carat", "EqualEqual",
            "BangEqual", "Greater", "GreaterEqual", "Less", "LessEqual", "PlusPlus",
            "Colon", "LeftArrow", "RightArrow"} |->
        CASE k = "Number"       -> ParseRule(PrecNone, "parse_number", "None")
          [] k = "True"         -> ParseRule(PrecNone, "parse_bool", "None")
          [] k = "False"        -> ParseRule(PrecNone, "parse_bool", "None")
          [] k = "String"       -> ParseRule(PrecNone, "parse_string", "None")
          [] k = "Identifier"   -> ParseRule(PrecNone, "parse_constant", "None")
          [] k = "LeftParen"    -> ParseRule(PrecNone, "parse_tuple", "None")
          [] k = "LeftSquare"   -> ParseRule(PrecNone, "parse_list", "None")
          [] k = "Minus"        -> ParseRule(PrecTerm, "parse_unary", "parse_binary_left")
          [] k = "Not"          -> ParseRule(PrecNone, "parse_unary", "None")
          [] k = "Plus"         -> ParseRule(PrecTerm, "None", "parse_binary_left")
          [] k = "Slash"        -> ParseRule(PrecFactor, "None", "parse_binary_left")
          [] k = "Star"         -> ParseRule(PrecFactor, "None", "parse_binary_left")
          [] k = "Percent"      -> ParseRule(PrecFactor, "None", "parse_binary_left")
          [] k = "Carat"        -> ParseRule(PrecPower, "None", "parse_binary_left")
          [] k = "EqualEqual"   -> ParseRule(PrecEquality, "None", "parse_binary_left")
          [] k = "BangEqual"    -> ParseRule(PrecEquality, "None", "parse_binary_left")
          [] k = "Greater"      -> ParseRule(PrecComparison, "None", "parse_binary_left")
          [] k = "GreaterEqual" -> ParseRule(PrecComparison, "None", "parse_binary_left")
          [] k = "Less"         -> ParseRule(PrecComparison, "None", "parse_binary_left")
          [] k = "LessEqual"    -> ParseRule(PrecComparison, "None", "parse_binary_left")
          [] k = "PlusPlus"     -> ParseRule(PrecTerm, "None", "parse_binary_left")
          [] k = "Colon"        -> ParseRule(PrecTerm, "None", "parse_binary_right")
          [] k = "LeftArrow"    -> ParseRule(PrecApply, "None", "parse_binary_right")
          [] k = "RightArrow"   -> ParseRule(PrecApply, "None", "parse_binary_left")]

get_parse_rule(kind) ==
    IF kind \in DOMAIN PARSE_TABLE
    THEN PARSE_TABLE[kind]
    ELSE ParseRule(PrecNone, "None", "None")

(***************************************************************************)
(* Parser                                                                  *)
(***************************************************************************)
\* The parser's state: its scanner, the two-slot token window, the error
\* channel (every report_in call, in order) and the log of scan_token calls.
Parser_new ==
    [sc |-> Scanner_new, previous |-> NoneToken, current |-> NoneToken,
     reports |-> <<>>, log |-> <<>>]

ParserError(token, msg) == [token |-> token, msg |-> msg]

NoParserError == ParserError(NoneToken, "")

Parser_make_error_at(token, msg) == ParserError(token, msg)

\* str::lines(): the text between line feeds, a carriage return before a line
\* feed dropped, and no empty last line after a final line feed.  cur is the
\* line being collected from position i on.
RECURSIVE SplitLines(_, _, _, _)
SplitLines(src, i, cur, acc) ==
    IF i > Len(src) THEN (IF cur = <<>> THEN acc ELSE Append(acc, cur))
    ELSE IF src[i] = "\n"
         THEN SplitLines(src, i + 1, <<>>,
                  Append(acc, IF cur # <<>> /\ cur[Len(cur)] = "\r"
                              THEN SubSeq(cur, 1, Len(cur) - 1) ELSE cur))
         ELSE SplitLines(src, i + 1, Append(cur, src[i]), acc)

Lines(src) == SplitLines(src, 1, <<>>, <<>>)

\* Report::position of the two error types.
position(by, err) ==
    IF by = "scanner" THEN <<err.line, err.col>> ELSE <<err.token.line, err.token.col>>

\* The first loop of report_in: `i` counts the lines from 0; line_contents is
\* the line last assigned when the loop breaks or runs out of lines.
RECURSIVE report_line(_, _, _, _)
report_line(lines, i, line_number, line_contents) ==
    IF i >= Len(lines) THEN line_contents
    ELSE IF i = line_number THEN lines[i + 1]
    ELSE report_line(lines, i + 1, line_number, lines[i + 1])

\* What report_in prints: the line number, the line it picked and the
\* number of spaces before the caret (for i in 1..col_number).
report_in(src, line_number, col_number) ==
    [line_number   |-> line_number,
     line_contents |-> report_line(Lines(src), 0, line_number, <<>>),
     col_space     |-> Cardinality(1..(col_number - 1))]

\* One record of the error channel: who reported, the error value, and what
\* report_in printed for it.
Report(src, by, err) ==
    [by |-> by, err |-> err,
     shown |-> report_in(src, position(by, err)[1], position(by, err)[2])]

\* One record of the scan log: the cursor before the call and what it returned.
Scanned(from, r) == [from |-> from, tag |-> r.tag, tok |-> r.tok, err |-> r.err, sc |-> r.sc]

POk(ps, expr) == [ps |-> ps, tag |-> "Ok", expr |-> expr, err |-> NoParserError]

PErr(ps, err) == [ps |-> ps, tag |-> "Err", expr |-> NoExpr, err |-> err]

PPanic(ps) == [ps |-> ps, tag |-> "Panic", expr |-> NoExpr, err |-> NoParserError]

\* The scan_token calls of advance(): the first call and, while the call
\* fails, report the error and call again.
RECURSIVE Parser_advance_scan(_, _)
Parser_advance_scan(src, ps) ==
    With(Scanner_scan_token(src, ps.sc), LAMBDA r :
        With([ps EXCEPT !.sc = r.sc, !.log = Append(@, Scanned(ps.sc.current, r))],
             LAMBDA logged :
                IF r.tag = "Panic" THEN [ps |-> logged, panic |-> TRUE]
                ELSE IF r.tag = "Ok"
                     THEN [ps |-> [logged EXCEPT !.current = r.tok], panic |-> FALSE]
                     ELSE Parser_advance_scan(src,
                              [logged EXCEPT !.reports = Append(@, Report(src, "scanner", r.err))])))

Parser_advance(src, ps) ==
    Parser_advance_scan(src, [ps EXCEPT !.previous = ps.current])

Parser_check(ps, kind) == ps.current.kind = kind

Parser_consume(src, ps, kind) ==
    IF Parser_check(ps, kind)
    THEN With(Parser_advance(src, ps), LAMBDA a :
             [ps |-> a.ps, matched |-> ~a.panic, panic |-> a.panic])
    ELSE [ps |-> ps, matched |-> FALSE, panic |-> FALSE]

Parser_expect(src, ps, kind, msg) ==
    With(Parser_consume(src, ps, kind), LAMBDA c :
        IF c.panic THEN PPanic(c.ps)
        ELSE IF ~c.matched THEN PErr(c.ps, Parser_make_error_at(c.ps.current, msg))
        ELSE POk(c.ps, NoExpr))

Parser_parse_number(ps) ==
    IF \E i \in 1..Len(ps.previous.lexeme) : ps.previous.lexeme[i] = "."
    THEN POk(ps, LiteralFloat(ParseF64(ps.previous.lexeme)))
    ELSE With(ParseI32(ps.previous.lexeme), LAMBDA v :
             IF v.ok THEN POk(ps, LiteralInt(v.value)) ELSE PPanic(ps))

Parser_parse_bool(ps) ==
    IF ps.previous.kind = "True" THEN POk(ps, LiteralBool(TRUE))
    ELSE IF ps.previous.kind = "False" THEN POk(ps, LiteralBool(FALSE))
    ELSE PPanic(ps)

Parser_parse_string(ps) == POk(ps, LiteralString(ps.previous.lexeme))

Parser_parse_constant(ps) == POk(ps, ConstantExpr(ps.previous))

RECURSIVE Parser_parse_precedence(_, _, _)
RECURSIVE Parser_infix_loop(_, _, _, _)
RECURSIVE Parser_prefix(_, _, _)
RECURSIVE Parser_infix(_, _, _, _)
RECURSIVE Parser_parse_unary(_, _)
RECURSIVE Parser_parse_binary_left(_, _, _)
RECURSIVE Parser_parse_binary_right(_, _, _)
RECURSIVE Parser_parse_tuple(_, _)
RECURSIVE Parser_parse_list(_, _)
RECURSIVE Parser_elements(_, _, _)

Parser_parse_precedence(src, ps, precedence) ==
    With(Parser_advance(src, ps), LAMBDA a :
        IF a.panic THEN PPanic(a.ps)
        ELSE IF get_parse_rule(a.ps.previous.kind).prefix # "None"
             THEN With(Parser_prefix(src, a.ps, get_parse_rule(a.ps.previous.kind).prefix),
                       LAMBDA p :
                          IF p.tag # "Ok" THEN p
                          ELSE Parser_infix_loop(src, p.ps, precedence, p.expr))
             ELSE PErr(a.ps, Parser_make_error_at(a.ps.previous, "Expected expression.")))

\* while precedence <= get_parse_rule(self.current.kind).precedence { ... }
Parser_infix_loop(src, ps, precedence, expr) ==
    IF precedence <= get_parse_rule(ps.current.kind).precedence
    THEN With(Parser_advance(src, ps), LAMBDA a :
             IF a.panic THEN PPanic(a.ps)
             ELSE IF get_parse_rule(a.ps.previous.kind).infix # "None"
                  THEN With(Parser_infix(src, a.ps, get_parse_rule(a.ps.previous.kind).infix,
                                         expr),
                            LAMBDA r :
                               IF r.tag # "Ok" THEN r
                               ELSE Parser_infix_loop(src, r.ps, precedence, r.expr))
                  ELSE Parser_infix_loop(src, a.ps, precedence, expr))
    ELSE POk(ps, expr)

\* The call through the function pointer of a rule's prefix slot.
Parser_prefix(src, ps, prefix_fn) ==
    CASE prefix_fn = "parse_number"   -> Parser_parse_number(ps)
      [] prefix_fn = "parse_bool"     -> Parser_parse_bool(ps)
      [] prefix_fn = "parse_string"   -> Parser_parse_string(ps)
      [] prefix_fn = "parse_constant" -> Parser_parse_constant(ps)
      [] prefix_fn = "parse_unary"    -> Parser_parse_unary(src, ps)
      [] prefix_fn = "parse_tuple"    -> Parser_parse_tuple(src, ps)
      [] prefix_fn = "parse_list"     -> Parser_parse_list(src, ps)

\* The call through the function pointer of a rule's infix slot.
Parser_infix(src, ps, infix_fn, left) ==
    CASE infix_fn = "parse_binary_left"  -> Parser_parse_binary_left(src, ps, left)
      [] infix_fn = "parse_binary_right" -> Parser_parse_binary_right(src, ps, left)

Parser_parse_unary(src, ps) ==
    With(Parser_parse_precedence(src, ps, PrecUnary), LAMBDA r :
        IF r.tag # "Ok" THEN r
        ELSE POk(r.ps, UnaryExpr(ps.previous, r.expr)))

\* operator is self.previous on entry, ps.previous here.
Parser_parse_binary_left(src, ps, left) ==
    With(Parser_parse_precedence(src, ps,
             PrecedenceFrom(get_parse_rule(ps.previous.kind).precedence + 1)),
         LAMBDA r :
            IF r.tag # "Ok" THEN r
            ELSE IF ps.previous.kind \in {"And", "Or"}
                 THEN POk(r.ps, LogicalExpr(left, r.expr, ps.previous))
            ELSE IF ps.previous.kind = "RightArrow"
                 THEN POk(r.ps, ApplyExpr(left, r.expr, ps.previous))
            ELSE POk(r.ps, BinaryExpr(left, r.expr, ps.previous)))

Parser_parse_binary_right(src, ps, left) ==
    With(Parser_parse_precedence(src, ps, get_parse_rule(ps.previous.kind).precedence),
         LAMBDA r :
            IF r.tag # "Ok" THEN r
            ELSE IF ps.previous.kind = "LeftArrow"
                 THEN POk(r.ps, ApplyExpr(r.expr, left, ps.previous))
            ELSE POk(r.ps, BinaryExpr(left, r.expr, ps.previous)))

\* while self.consume(TokenKind::Comma) { elements.push(parse_precedence(Or)?) }
\* The result's expr field carries the element sequence.
Parser_elements(src, ps, elements) ==
    With(Parser_consume(src, ps, "Comma"), LAMBDA c :
        IF c.panic THEN PPanic(c.ps)
        ELSE IF ~c.matched THEN POk(c.ps, elements)
        ELSE With(Parser_parse_precedence(src, c.ps, PrecOr), LAMBDA r :
                 IF r.tag # "Ok" THEN r
                 ELSE Parser_elements(src, r.ps, Append(elements, r.expr))))

\* The if/else of parse_tuple that computes `value`; c is what
\* self.consume(TokenKind::Comma) returned after the first expression.
Parser_tuple_value(src, paren, first, c) ==
    IF c.matched
    THEN With(Parser_parse_precedence(src, c.ps, PrecOr), LAMBDA second :
             IF second.tag # "Ok" THEN second
             ELSE With(Parser_elements(src, second.ps, <<first.expr, second.expr>>),
                       LAMBDA rest :
                          IF rest.tag # "Ok" THEN rest
                          ELSE POk(rest.ps, TupleExpr(rest.expr, paren))))
    ELSE POk(c.ps, first.expr)

Parser_parse_tuple(src, ps) ==
    With(Parser_parse_precedence(src, ps, PrecOr), LAMBDA first :
        IF first.tag # "Ok" THEN first
        ELSE With(Parser_consume(src, first.ps, "Comma"), LAMBDA c :
                 IF c.panic THEN PPanic(c.ps)
                 ELSE With(Parser_tuple_value(src, ps.previous, first, c), LAMBDA value :
                          IF value.tag # "Ok" THEN value
                          ELSE With(Parser_expect(src, value.ps, "RightParen",
                                                  "Expected ')' after tuple."),
                                    LAMBDA e :
                                       IF e.tag # "Ok" THEN e ELSE POk(e.ps, value.expr)))))

\* if !self.check(RightSquare) { elements.push(parse_precedence(Or)?) }
\* The result's expr field carries the element sequence.
Parser_list_first(src, ps) ==
    IF ~Parser_check(ps, "RightSquare")
    THEN With(Parser_parse_precedence(src, ps, PrecOr), LAMBDA r :
             IF r.tag # "Ok" THEN r ELSE POk(r.ps, <<r.expr>>))
    ELSE POk(ps, <<>>)

Parser_parse_list(src, ps) ==
    With(Parser_list_first(src, ps), LAMBDA first :
        IF first.tag # "Ok" THEN first
        ELSE With(Parser_elements(src, first.ps, first.expr), LAMBDA rest :
                 IF rest.tag # "Ok" THEN rest
                 ELSE With(Parser_expect(src, rest.ps, "RightSquare",
                                         "Expected ']' after list."),
                           LAMBDA e :
                              IF e.tag # "Ok" THEN e
                              ELSE POk(e.ps, ListExpr(rest.expr, ps.previous)))))

Parser_is_at_end(ps) == ps.current.kind = "Eof"

(***************************************************************************)
(* Source texts                                                            *)
(***************************************************************************)
MaxLen == 3

MaxElems == 3

SeqsUpTo(S, n) == UNION {[1..k -> S] : k \in 0..n}

RECURSIVE Concat(_)
Concat(parts) == IF parts = <<>> THEN <<>> ELSE Head(parts) \o Concat(Tail(parts))

\* Every text of at most MaxLen characters over an alphabet that has a
\* character for each arm of scan_token.
Alphabet == {"1", "n", "q", "+", "-", "<", ">", "=", "\"", "\\", "\n", " ", "#", ".",
             "@", "(", ")"}

ShortTexts == SeqsUpTo(Alphabet, MaxLen)

\* What may follow the last token of a text: nothing, a newline, a space.
Tails == {<<>>, <<"\n">>, <<" ">>}

Operands == {<<"a">>, <<"7">>}

InfixSpellings ==
    {<<"+">>, <<"-">>, <<"*">>, <<"/">>, <<"%">>, <<"^">>, <<"+", "+">>,
     <<"=", "=">>, <<"!", "=">>, <<">">>, <<">", "=">>, <<"<">>, <<"<", "=">>,
     <<":">>, <<"<", "-">>, <<"-", ">">>, <<"a", "n", "d">>, <<"o", "r">>}

\* x op1 y op2 z, the tokens separated by single spaces, then a tail.
InfixText(x, op1, y, op2, z, t) ==
    Concat(<<x, <<" ">>, op1, <<" ">>, y, <<" ">>, op2, <<" ">>, z, t>>)

InfixTexts ==
    {InfixText(x, op1, <<"b">>, op2, z, t) :
        x \in Operands, z \in Operands,
        op1 \in InfixSpellings, op2 \in InfixSpellings, t \in Tails}

\* (e, e, ...) and [e, e, ...] with up to MaxElems elements, with and without
\* the closing bracket.
DigitChar(n) == CHOOSE c \in Digits : DigitValue(c) = n

\* "1, 2, ..., n"
RECURSIVE CommaList(_)
CommaList(n) ==
    IF n = 0 THEN <<>>
    ELSE IF n = 1 THEN <<"1">>
    ELSE CommaList(n - 1) \o <<",", " ">> \o <<DigitChar(n)>>

GroupText(open, n, close, t) == Concat(<<open, CommaList(n), close, t>>)

GroupTexts ==
    {GroupText(open, n, close, t) :
        open \in {<<"(">>, <<"[">>}, n \in 0..MaxElems,
        close \in {<<>>, <<")">>, <<"]">>}, t \in Tails}

\* Literals, and the two-line texts of the error-recovery examples.
LiteralTexts ==
    {l \o t : l \in {<<"4", "2">>, <<"5">>, <<"3", ".", "1", "4">>, <<"3", ".", "5", "0">>,
                     <<"t", "r", "u", "e">>, <<"f", "a", "l", "s", "e">>,
                     <<"\"", "a", "\\", "n", "b", "\"">>, <<"\"", "a", "\\", "q", "b", "\"">>,
                     <<"\"", "a", "b", "c">>, <<"\"", "a", "\n", "b", "\"">>,
                     <<"2", "1", "4", "7", "4", "8", "3", "6", "4", "7">>,
                     <<"2", "1", "4", "7", "4", "8", "3", "6", "4", "8">>,
                     <<"1", " ", "+", " ", "2", "\n", "3">>,
                     <<"n", "o", "t", " ", "a">>, <<"-", "a", " ", "*", " ", "b">>},
              t \in Tails}

\* A line whose form has one syntax error, then a line with the literal 3.
RecoveryTexts == {<<"1", " ", "+", " ", "+", " ", "2", "\n", "3">> \o t : t \in Tails}

\* The example texts of the specification's testable properties.
PipeExample == <<"a", " ", "-", ">", " ", "f", " ", "-", ">", " ", "g">>

CallExample == <<"g", " ", "<", "-", " ", "f", " ", "<", "-", " ", "a">>

SumProductExample == <<"2", " ", "+", " ", "3", " ", "*", " ", "4">>

ProductSumExample == <<"2", " ", "*", " ", "3", " ", "+", " ", "4">>

AndOrExample == <<"a", " ", "a", "n", "d", " ", "b", " ", "o", "r", " ", "c">>

GroupExample == <<"(", "5", ")">>

PairExample == <<"(", "5", ",", " ", "6", ")">>

NotEqualExample == <<"a", " ", "!", "=", " ", "b">>

ExampleTexts ==
    {e \o t : e \in {PipeExample, CallExample, SumProductExample, ProductSumExample,
                      AndOrExample, GroupExample, PairExample, NotEqualExample},
              t \in Tails}

\* Function literals whose case bodies have no "?": one case, and two cases.
SugarExample == <<"{", "x", " ", "|", " ", "x", " ", "+", " ", "1", "}">>

TwoCaseExample == <<"{", "0", " ", "|", " ", "1", ",", " ", "x", " ", "|", " ", "2", "}">>

FunctionTexts == {e \o t : e \in {SugarExample, TwoCaseExample}, t \in Tails}

Sources ==
    ShortTexts \cup InfixTexts \cup GroupTexts \cup LiteralTexts \cup RecoveryTexts
        \cup ExampleTexts \cup FunctionTexts

(***************************************************************************)
(* The state machine                                                       *)
(***************************************************************************)
NoResult == [tag |-> "None", tok |-> NoneToken, err |-> NoError]

NoOutcome == [tag |-> "None", expr |-> NoExpr, err |-> NoParserError]

Init ==
    /\ source \in Sources
    /\ entry \in {"run", "parse"}
    /\ pc = "start"
    /\ scanner = Scanner_new
    /\ result = NoResult
    /\ previous = NoneToken
    /\ current = NoneToken
    /\ ast = <<>>
    /\ outcome = NoOutcome
    /\ reports = <<>>
    /\ scanlog = <<>>

\* The parser's fields as one record, and their update from one.
ParserState ==
    [sc |-> scanner, previous |-> previous, current |-> current,
     reports |-> reports, log |-> scanlog]

SetParser(ps) ==
    /\ scanner' = ps.sc
    /\ previous' = ps.previous
    /\ current' = ps.current
    /\ reports' = ps.reports
    /\ scanlog' = ps.log

\* gwn::run: t = scanner.scan_token().unwrap(), then the test of the while loop.
RunScan ==
    \E r \in {Scanner_scan_token(source, scanner)} :
        /\ scanner' = r.sc
        /\ result' = [tag |-> r.tag, tok |-> r.tok, err |-> r.err]
        /\ scanlog' = Append(scanlog, Scanned(scanner.current, r))
        /\ pc' = IF r.tag # "Ok" THEN "panicked"
                 ELSE IF r.tok.kind = "Eof" THEN "done" ELSE "loop"
        /\ UNCHANGED <<source, entry, previous, current, ast, outcome, reports>>

Run_first == entry = "run" /\ pc = "start" /\ RunScan

Run_next == entry = "run" /\ pc = "loop" /\ RunScan

\* Parser::parse, up to the loop.
Parse_start ==
    /\ entry = "parse" /\ pc = "start"
    /\ \E a \in {Parser_advance(source, ParserState)} :
          /\ SetParser(a.ps)
          /\ pc' = IF a.panic THEN "panicked" ELSE "loop"
    /\ ast' = <<>>
    /\ UNCHANGED <<source, entry, result, outcome>>

\* The else branch of the loop body: report the error, then self.advance().
Parse_recover(r) ==
    \E a \in {Parser_advance(source,
                  [r.ps EXCEPT !.reports = Append(@, Report(source, "parser", r.err))])} :
        /\ ast' = ast
        /\ SetParser(a.ps)
        /\ pc' = IF a.panic THEN "panicked" ELSE "loop"

\* One iteration of the loop of Parser::parse.
Parse_form ==
    /\ entry = "parse" /\ pc = "loop"
    /\ ~Parser_is_at_end(ParserState)
    /\ \E r \in {Parser_parse_precedence(source, ParserState, PrecOr)} :
          /\ outcome' = [tag |-> r.tag, expr |-> r.expr, err |-> r.err]
          /\ IF r.tag = "Ok"
             THEN /\ ast' = Append(ast, r.expr)
                  /\ SetParser(r.ps)
                  /\ pc' = "loop"
             ELSE IF r.tag = "Err"
             THEN Parse_recover(r)
             ELSE /\ ast' = ast
                  /\ SetParser(r.ps)
                  /\ pc' = "panicked"
    /\ UNCHANGED <<source, entry, result>>

\* The loop of Parser::parse ends and parse() returns ast.
Parse_return ==
    /\ entry = "parse" /\ pc = "loop"
    /\ Parser_is_at_end(ParserState)
    /\ pc' = "done"
    /\ UNCHANGED <<source, entry, scanner, result, previous, current, ast, outcome,
                   reports, scanlog>>

Next == Run_first \/ Run_next \/ Parse_start \/ Parse_form \/ Parse_return

Spec == Init /\ [][Next]_vars

(***************************************************************************)
(* Vocabulary of the properties                                            *)
(***************************************************************************)
\* An expression without the positions of its tokens: each token is
\* replaced by its lexeme.
RECURSIVE Shape(_)
Shape(e) ==
    CASE e.node = "Literal"  -> [node |-> "Literal", lit |-> e.lit]
      [] e.node = "Constant" -> [node |-> "Constant", name |-> e.name.lexeme]
      [] e.node = "Unary"    -> [node |-> "Unary", operator |-> e.operator.lexeme,
                                 operand |-> Shape(e.operand)]
      [] e.node \in {"Binary", "Logical"} ->
             [node |-> e.node, operator |-> e.operator.lexeme,
              left |-> Shape(e.left), right |-> Shape(e.right)]
      [] e.node = "Apply"    -> [node |-> "Apply", func |-> Shape(e.func), arg |-> Shape(e.arg)]
      [] e.node \in {"Tuple", "List"} ->
             [node |-> e.node,
              elements |-> [i \in 1..Len(e.elements) |-> Shape(e.elements[i])]]

IntShape(v) == [node |-> "Literal", lit |-> [kind |-> "Int", int |-> v]]

\* The shape an operand text of Operands stands for.
OperandShape(x) ==
    IF x = <<"7">> THEN IntShape(7) ELSE [node |-> "Constant", name |-> x]

BinaryShape(op, l, r) == [node |-> "Binary", operator |-> op, left |-> l, right |-> r]

LogicalShape(op, l, r) == [node |-> "Logical", operator |-> op, left |-> l, right |-> r]

ApplyShape(f, a) == [node |-> "Apply", func |-> f, arg |-> a]

Parsing == entry = "parse"

Returned == entry = "parse" /\ pc = "done"

SyntaxReports == {i \in DOMAIN reports : reports[i].by = "parser"}

\* A scan_token call that got as far as the first character of a token.
StartsToken(e) == e.sc.start >= e.from /\ e.sc.start < Len(source)

\* What a string literal whose body starts at position i runs into first: its
\* closing quote, an escape outside n t r ", or the end of the input.
RECURSIVE StringBody(_, _)
StringBody(src, i) ==
    IF i >= Len(src) THEN [end |-> "unterminated", ch |-> ""]
    ELSE IF src[i + 1] = "\"" THEN [end |-> "closed", ch |-> ""]
    ELSE IF src[i + 1] = "\\"
         THEN IF i + 1 >= Len(src) THEN [end |-> "unterminated", ch |-> ""]
              ELSE IF src[i + 2] \in {"n", "t", "r", "\""} THEN StringBody(src, i + 2)
              ELSE [end |-> "bad_escape", ch |-> src[i + 2]]
    ELSE StringBody(src, i + 1)

(***************************************************************************)
(* Properties                                                              *)
(***************************************************************************)
\* C1: on every source text Parser::parse() runs to the end: nothing aborts
\* the run, and when parse() returns the current token is Eof.
C1_ParseReachesEof ==
    Parsing => /\ pc # "panicked"
               /\ (pc = "done" => current.kind = "Eof")

\* C2: for a line with one syntax error followed by a line holding the literal
\* 3, parse() has reported exactly one syntax error when it returns, and the
\* literal 3 is among the returned forms.
C2_RecoveryConfinedToForm ==
    (Returned /\ source \in RecoveryTexts) =>
        /\ Cardinality(SyntaxReports) = 1
        /\ \E i \in DOMAIN ast : Shape(ast[i]) = IntShape(3)

ConstantShape(name) == [node |-> "Constant", name |-> name]

\* Every text "x -> y -> z" and "z <- y <- x", and the tree it is to parse to.
PipeCallCases ==
    UNION {
        {[text  |-> InfixText(q[1], <<"-", ">">>, <<"b">>, <<"-", ">">>, q[2], q[3]),
          shape |-> ApplyShape(OperandShape(q[2]),
                        ApplyShape(OperandShape(<<"b">>), OperandShape(q[1])))],
         [text  |-> InfixText(q[2], <<"<", "-">>, <<"b">>, <<"<", "-">>, q[1], q[3]),
          shape |-> ApplyShape(OperandShape(q[2]),
                        ApplyShape(OperandShape(<<"b">>), OperandShape(q[1])))]} :
        q \in Operands \X Operands \X Tails}
    \cup
    {[text  |-> e \o t,
      shape |-> ApplyShape(ConstantShape(<<"g">>),
                    ApplyShape(ConstantShape(<<"f">>), ConstantShape(<<"a">>)))] :
        e \in {PipeExample, CallExample}, t \in Tails}

\* C3: for all operands x, y, z, parsing "x -> y -> z" and parsing
\* "z <- y <- x" both run to the end and yield, as first form,
\* Apply(func z, arg Apply(func y, arg x)).
C3_PipeCallMirror ==
    Parsing =>
        \A c \in PipeCallCases :
            source = c.text =>
                /\ pc # "panicked"
                /\ pc = "done" => (Len(ast) >= 1 /\ Shape(ast[1]) = c.shape)

\* The operators that build Binary nodes, with their rung on the ladder
\* Or = 1 < And < Equality < Comparison < Term < Factor < Power < Apply = 8.
Ladder ==
    [op \in {<<"=", "=">>, <<">">>, <<">", "=">>, <<"<">>, <<"<", "=">>, <<"+">>, <<"-">>,
             <<"+", "+">>, <<":">>, <<"*">>, <<"/">>, <<"%">>, <<"^">>} |->
        CASE op = <<"=", "=">> -> 3
          [] op \in {<<">">>, <<">", "=">>, <<"<">>, <<"<", "=">>} -> 4
          [] op \in {<<"+">>, <<"-">>, <<"+", "+">>, <<":">>} -> 5
          [] op \in {<<"*">>, <<"/">>, <<"%">>} -> 6
          [] op = <<"^">> -> 7]

\* Every text "x lo y hi z" and "x hi y lo z" with lo lower on the ladder than
\* hi, and the grouping it is to parse to.
LadderCases ==
    UNION {
        {[text  |-> InfixText(q[3], q[1], <<"b">>, q[2], q[4], q[5]),
          shape |-> BinaryShape(q[1], OperandShape(q[3]),
                        BinaryShape(q[2], OperandShape(<<"b">>), OperandShape(q[4])))],
         [text  |-> InfixText(q[3], q[2], <<"b">>, q[1], q[4], q[5]),
          shape |-> BinaryShape(q[1],
                        BinaryShape(q[2], OperandShape(q[3]), OperandShape(<<"b">>)),
                        OperandShape(q[4]))]} :
        q \in {r \in (DOMAIN Ladder) \X (DOMAIN Ladder) \X Operands \X Operands \X Tails :
                  Ladder[r[1]] < Ladder[r[2]]}}
    \cup
    {[text  |-> SumProductExample \o t,
      shape |-> BinaryShape(<<"+">>, IntShape(2), BinaryShape(<<"*">>, IntShape(3), IntShape(4)))] :
        t \in Tails}
    \cup
    {[text  |-> ProductSumExample \o t,
      shape |-> BinaryShape(<<"+">>, BinaryShape(<<"*">>, IntShape(2), IntShape(3)), IntShape(4))] :
        t \in Tails}

\* C4: for Binary operators lo and hi with lo lower on the ladder than hi,
\* "x lo y hi z" parses to Binary(lo, x, Binary(hi, y, z)) and "x hi y lo z"
\* to Binary(lo, Binary(hi, x, y), z); the parse runs to the end.
C4_PrecedenceLadder ==
    Parsing =>
        \A c \in LadderCases :
            source = c.text =>
                /\ pc # "panicked"
                /\ pc = "done" => (Len(ast) >= 1 /\ Shape(ast[1]) = c.shape)

\* Every text "x and y or z", and the tree it is to parse to.
LogicalCases ==
    {[text  |-> InfixText(q[1], <<"a", "n", "d">>, <<"b">>, <<"o", "r">>, q[2], q[3]),
      shape |-> LogicalShape(<<"o", "r">>,
                    LogicalShape(<<"a", "n", "d">>, OperandShape(q[1]), OperandShape(<<"b">>)),
                    OperandShape(q[2]))] :
        q \in Operands \X Operands \X Tails}
    \cup
    {[text  |-> AndOrExample \o t,
      shape |-> LogicalShape(<<"o", "r">>,
                    LogicalShape(<<"a", "n", "d">>, ConstantShape(<<"a">>), ConstantShape(<<"b">>)),
                    ConstantShape(<<"c">>))] :
        t \in Tails}

\* C5: "x and y or z" parses, with no error reported, to the single form
\* Logical(or, Logical(and, x, y), z).
C5_LogicalOperators ==
    Returned =>
        \A c \in LogicalCases :
            source = c.text =>
                /\ reports = <<>>
                /\ Len(ast) = 1
                /\ Shape(ast[1]) = c.shape

\* Sources that consist of one literal, and the literal each stands for.
LiteralCases ==
    {[text |-> <<"4", "2">>, lit |-> [kind |-> "Int", int |-> 42]],
     [text |-> <<"5">>, lit |-> [kind |-> "Int", int |-> 5]],
     [text |-> <<"3", ".", "1", "4">>, lit |-> [kind |-> "Float", float |-> [mant |-> 314, scale |-> 2]]],
     [text |-> <<"t", "r", "u", "e">>, lit |-> [kind |-> "Bool", bool |-> TRUE]],
     [text |-> <<"f", "a", "l", "s", "e">>, lit |-> [kind |-> "Bool", bool |-> FALSE]],
     [text |-> <<"\"", "a", "\\", "n", "b", "\"">>, lit |-> [kind |-> "String", str |-> <<"a", "\n", "b">>]]}

\* C6: a source consisting only of a literal parses, running to the end, to
\* exactly one Literal form of the matching kind and value.
C6_LiteralRoundTrip ==
    \A c \in LiteralCases :
        (Parsing /\ source = c.text) =>
            /\ pc # "panicked"
            /\ pc = "done" => (Len(ast) = 1 /\ ast[1].node = "Literal" /\ ast[1].lit = c.lit)

\* "1, 2, ..., n" as the shapes of its elements.
IntShapes(n) == [i \in 1..n |-> IntShape(i)]

TupleShape(elements) == [node |-> "Tuple", elements |-> elements]

\* Every closed group "(e1, ..., en)", and the tree it is to parse to.
GroupCases ==
    {[text  |-> GroupText(<<"(">>, q[1], <<")">>, q[2]),
      shape |-> IF q[1] = 1 THEN IntShape(1) ELSE TupleShape(IntShapes(q[1]))] :
        q \in (1..MaxElems) \X Tails}
    \cup {[text |-> GroupExample \o t, shape |-> IntShape(5)] : t \in Tails}
    \cup {[text |-> PairExample \o t, shape |-> TupleShape(<<IntShape(5), IntShape(6)>>)] :
             t \in Tails}

\* Every group "(e1, ..., en" whose ")" is missing.
UnclosedGroups == {GroupText(<<"(">>, q[1], <<>>, q[2]) : q \in (1..MaxElems) \X Tails}

\* The syntax error reported first.
FirstSyntaxReport ==
    reports[CHOOSE i \in SyntaxReports : \A j \in SyntaxReports : i <= j].err

\* C7: "(e)" parses to e itself, "(e1, ..., en)" with n >= 2 to the Tuple of
\* e1..en in order, and a group whose ")" is missing fails with the
\* expected-")" syntax error; each parse runs to the end.
C7_TupleCollapse ==
    Parsing =>
        /\ \A c \in GroupCases :
              source = c.text =>
                  /\ pc # "panicked"
                  /\ pc = "done" => (Len(ast) >= 1 /\ Shape(ast[1]) = c.shape)
        /\ source \in UnclosedGroups =>
              /\ pc # "panicked"
              /\ pc = "done" =>
                    /\ SyntaxReports # {}
                    /\ FirstSyntaxReport.msg = "Expected ')' after tuple."

\* C8: a scan_token call on a string literal whose closing quote is missing
\* returns the UnterminatedString error.
C8_UnterminatedString ==
    \A k \in DOMAIN scanlog :
        LET e == scanlog[k] IN
        (/\ StartsToken(e)
         /\ CharAt(source, e.sc.start) = "\""
         /\ StringBody(source, e.sc.start + 1).end = "unterminated") =>
            (e.tag = "Err" /\ e.err.kind = "UnterminatedString")

\* C9: a scan_token call on a string literal with a backslash followed by a
\* character other than n, t, r and the double quote returns the
\* UnrecognizedEscape error, whose message cites that character.
C9_UnrecognizedEscape ==
    \A k \in DOMAIN scanlog :
        LET e == scanlog[k] IN
        (/\ StartsToken(e)
         /\ CharAt(source, e.sc.start) = "\""
         /\ StringBody(source, e.sc.start + 1).end = "bad_escape") =>
            /\ e.tag = "Err"
            /\ e.err.kind = "UnrecognizedEscape"
            /\ e.err.cited = StringBody(source, e.sc.start + 1).ch

\* The kind that maximal munch gives a token starting with character c when
\* the character after it is d ("" at the end of the input).
MunchKind(c, d) ==
    CASE c = "+" -> IF d = "+" THEN "PlusPlus" ELSE "Plus"
      [] c = "=" -> IF d = "=" THEN "EqualEqual" ELSE "Equal"
      [] c = "<" -> IF d = "=" THEN "LessEqual" ELSE IF d = "-" THEN "LeftArrow" ELSE "Less"
      [] c = ">" -> IF d = "=" THEN "GreaterEqual" ELSE "Greater"
      [] c = "-" -> IF d = ">" THEN "RightArrow" ELSE "Minus"

\* C10: a scan_token call on a token that starts with + = < > or - returns the
\* two-character kind when the next character completes one, and the
\* one-character kind otherwise, also at the end of the input.
C10_MaximalMunch ==
    \A k \in DOMAIN scanlog :
        LET e == scanlog[k]
            p == e.sc.start
            d == IF p + 1 < Len(source) THEN CharAt(source, p + 1) ELSE ""
        IN  (StartsToken(e) /\ CharAt(source, p) \in {"+", "=", "<", ">", "-"}) =>
                /\ e.tag = "Ok"
                /\ e.tok.kind = MunchKind(CharAt(source, p), d)
                /\ e.tok.lexeme = SubSeq(source, p + 1,
                       IF e.tok.kind \in {"Plus", "Equal", "Less", "Greater", "Minus"}
                       THEN p + 1 ELSE p + 2)

\* Every text with the operator !=, and the tree it is to parse to: alone,
\* twice in a row (left-associative), and next to + (Equality is below Term).
NotEqualCases ==
    {[text |-> NotEqualExample \o t,
      shape |-> BinaryShape(<<"!", "=">>, ConstantShape(<<"a">>), ConstantShape(<<"b">>))] :
        t \in Tails}
    \cup
    UNION {
        {[text  |-> InfixText(q[1], <<"!", "=">>, <<"b">>, <<"!", "=">>, q[2], q[3]),
          shape |-> BinaryShape(<<"!", "=">>,
                        BinaryShape(<<"!", "=">>, OperandShape(q[1]), OperandShape(<<"b">>)),
                        OperandShape(q[2]))],
         [text  |-> InfixText(q[1], <<"!", "=">>, <<"b">>, <<"+">>, q[2], q[3]),
          shape |-> BinaryShape(<<"!", "=">>, OperandShape(q[1]),
                        BinaryShape(<<"+">>, OperandShape(<<"b">>), OperandShape(q[2])))],
         [text  |-> InfixText(q[1], <<"+">>, <<"b">>, <<"!", "=">>, q[2], q[3]),
          shape |-> BinaryShape(<<"!", "=">>,
                        BinaryShape(<<"+">>, OperandShape(q[1]), OperandShape(<<"b">>)),
                        OperandShape(q[2]))]} :
        q \in Operands \X Operands \X Tails}

\* C11: a scan_token call on the characters != returns one BangEqual token
\* with lexeme "!=", and a text "x != y" parses, with no error reported, to
\* the single form Binary(!=, x, y), != grouping to the left and below +.
C11_BangEqual ==
    /\ \A k \in DOMAIN scanlog :
          LET e == scanlog[k] IN
          (/\ StartsToken(e)
           /\ CharAt(source, e.sc.start) = "!"
           /\ e.sc.start + 1 < Len(source)
           /\ CharAt(source, e.sc.start + 1) = "=") =>
              /\ e.tag = "Ok"
              /\ e.tok.kind = "BangEqual"
              /\ e.tok.lexeme = <<"!", "=">>
    /\ Returned =>
          \A c \in NotEqualCases :
              source = c.text =>
                  /\ reports = <<>>
                  /\ Len(ast) = 1
                  /\ Shape(ast[1]) = c.shape

\* The end of the run of digits that starts at position i.
RECURSIVE DigitsEnd(_, _)
DigitsEnd(src, i) ==
    IF i < Len(src) /\ CharAt(src, i) \in Digits THEN DigitsEnd(src, i + 1) ELSE i

\* The end of the number that starts at position p: the digits, and the
\* fraction when the digits are followed by "." and a digit.
NumberEnd(src, p) ==
    LET d == DigitsEnd(src, p) IN
    IF /\ d + 1 < Len(src)
       /\ CharAt(src, d) = "."
       /\ CharAt(src, d + 1) \in Digits
    THEN DigitsEnd(src, d + 1)
    ELSE d

\* C12: a scan_token call on digits followed by "." returns one Number token:
\* with the fraction in its lexeme when a digit follows the ".", and
\* otherwise (another character or the end of the input follows) with the
\* digits only, the scanner left at the ".".
C12_NumberFraction ==
    \A k \in DOMAIN scanlog :
        LET e == scanlog[k]
            p == e.sc.start
        IN  (/\ StartsToken(e)
             /\ CharAt(source, p) \in Digits
             /\ DigitsEnd(source, p) < Len(source)
             /\ CharAt(source, DigitsEnd(source, p)) = ".") =>
                /\ e.tag = "Ok"
                /\ e.tok.kind = "Number"
                /\ e.sc.current = NumberEnd(source, p)
                /\ e.tok.lexeme = SubSeq(source, p + 1, NumberEnd(source, p))

\* The end of the run of newline characters that starts at position i.
RECURSIVE NewlinesEnd(_, _)
NewlinesEnd(src, i) ==
    IF i < Len(src) /\ CharAt(src, i) = "\n" THEN NewlinesEnd(src, i + 1) ELSE i

\* C13: a scan_token call on a run of k >= 1 newline characters returns one
\* Newline token for the whole run and leaves the column counter at 0.
C13_NewlineColumn ==
    \A k \in DOMAIN scanlog :
        LET e == scanlog[k] IN
        (StartsToken(e) /\ CharAt(source, e.sc.start) = "\n") =>
            /\ e.tag = "Ok"
            /\ e.tok.kind = "Newline"
            /\ e.sc.current = NewlinesEnd(source, e.sc.start)
            /\ e.sc.col = 0


\* The newline characters among the first n characters of the source.
NewlinesBefore(src, n) == Cardinality({i \in 1..n : src[i] = "\n"})

\* C14: in every state of a run that has not aborted, the scanner's line
\* counter is 1 plus the number of newline characters it has consumed.
C14_LineCounter ==
    pc # "panicked" => scanner.line = 1 + NewlinesBefore(source, scanner.current)

\* Where the next token starts when scanning resumes at position i: after the
\* spaces, tabs and carriage returns, and after each comment up to its
\* newline or the end of the input.
RECURSIVE SkipEnd(_, _, _)
SkipEnd(src, i, in_comment) ==
    IF i >= Len(src) THEN i
    ELSE IF in_comment
         THEN IF CharAt(src, i) = "\n" THEN i ELSE SkipEnd(src, i + 1, TRUE)
    ELSE IF CharAt(src, i) \in {" ", "\r", "\t"} THEN SkipEnd(src, i + 1, FALSE)
    ELSE IF CharAt(src, i) = "#" THEN SkipEnd(src, i + 1, TRUE)
    ELSE i

\* C15: every scan_token call starts its token after the spaces, tabs,
\* carriage returns and comments at the cursor; when a newline is there it
\* returns Newline, and when the input ends there it returns Eof.
C15_SkipWhitespace ==
    \A k \in DOMAIN scanlog :
        LET e == scanlog[k]
            s == SkipEnd(source, e.from, FALSE)
        IN  /\ e.sc.start = s
            /\ s = Len(source) => (e.tag = "Ok" /\ e.tok.kind = "Eof")
            /\ (s < Len(source) /\ CharAt(source, s) = "\n") =>
                   (e.tag = "Ok" /\ e.tok.kind = "Newline")

\* The characters in the source texts that start no token.
RogueCharacters ==
    {c \in Alphabet :
        /\ c \notin Digits
        /\ ~is_identifier_start(c)
        /\ c \notin DOMAIN SingleCharKind
        /\ c \notin {"\"", "+", "=", "<", ">", "-", "\n", " ", "\r", "\t", "#"}}

\* C16: a scan_token call on a character that starts no token returns the
\* UnrecognizedCharacter error, and the error carries that character, the
\* line it is on and the column counter after reading it.
C16_UnrecognizedCharacter ==
    \A k \in DOMAIN scanlog :
        LET e == scanlog[k]
            p == e.sc.start
        IN  (StartsToken(e) /\ CharAt(source, p) \in RogueCharacters) =>
                /\ e.tag = "Err"
                /\ e.err.kind = "UnrecognizedCharacter"
                /\ e.err.cited = CharAt(source, p)
                /\ e.err.place = CharAt(source, p)
                /\ e.err.line = e.sc.line
                /\ e.err.col = e.sc.col


\* The kinds and lexemes that the loop of gwn::run gets from repeated
\* scan_token calls on a text, and how the loop ends: at Eof, or in the
\* panic of unwrap() on an error, or in a panic of the scanner.
RECURSIVE TokenStream(_, _, _)
TokenStream(src, sc, toks) ==
    With(Scanner_scan_token(src, sc), LAMBDA r :
        IF r.tag # "Ok" THEN [toks |-> toks, end |-> r.tag]
        ELSE IF r.tok.kind = "Eof"
             THEN [toks |-> Append(toks, <<r.tok.kind, r.tok.lexeme>>), end |-> "Eof"]
             ELSE TokenStream(src, r.sc, Append(toks, <<r.tok.kind, r.tok.lexeme>>)))

run(src) == TokenStream(src, Scanner_new, <<>>)

\* The text with character c put in before position pos, and the text
\* without the character at position pos.
InsertAt(src, pos, c) == SubSeq(src, 1, pos) \o <<c>> \o SubSeq(src, pos + 1, Len(src))

RemoveAt(src, pos) == SubSeq(src, 1, pos) \o SubSeq(src, pos + 2, Len(src))

\* The kinds and lexemes of the tokens the finished run has produced.
Scanned_stream ==
    [toks |-> [k \in DOMAIN scanlog |-> <<scanlog[k].tok.kind, scanlog[k].tok.lexeme>>],
     end  |-> "Eof"]

\* A space between two tokens that does not hold them apart: it is next to
\* another space, or the input ends after it.
SpareSpace(src, pos) ==
    /\ CharAt(src, pos) = " "
    /\ \/ pos + 1 >= Len(src)
       \/ CharAt(src, pos + 1) = " "
       \/ (pos > 0 /\ CharAt(src, pos - 1) = " ")

\* C17: when the run over a text has produced its tokens up to Eof, the run
\* over the text with a space put in between two adjacent tokens, with a
\* comment put in before a Newline or the Eof token, or with a spare space
\* between two adjacent tokens taken out produces the same kinds and lexemes.
C17_WhitespaceInvariance ==
    (entry = "run" /\ pc = "done") =>
        \A k \in 1..(Len(scanlog) - 1) :
            /\ \A pos \in {scanlog[k].sc.current, scanlog[k + 1].sc.start} :
                  /\ run(InsertAt(source, pos, " ")) = Scanned_stream
                  /\ scanlog[k + 1].tok.kind \in {"Newline", "Eof"} =>
                        run(InsertAt(source, scanlog[k + 1].sc.start, "#")) = Scanned_stream
            /\ \A pos \in scanlog[k].sc.current .. (scanlog[k + 1].sc.start - 1) :
                  (SpareSpace(source, pos) /\ SkipEnd(source, pos, FALSE) = scanlog[k + 1].sc.start) =>
                      run(RemoveAt(source, pos)) = Scanned_stream


\* Every node of an expression, at any depth, has the type the claim gives
\* it: a Literal the type of its kind, every other node Unknown.
RECURSIVE TypOk(_)
TypOk(e) ==
    CASE e.node = "Literal" ->
             e.lit.kind \in {"Int", "Float", "Bool", "String"} /\ e.typ = e.lit.kind
      [] e.node = "Constant" -> e.typ = "Unknown"
      [] e.node = "Unary" -> e.typ = "Unknown" /\ TypOk(e.operand)
      [] e.node \in {"Binary", "Logical"} ->
             e.typ = "Unknown" /\ TypOk(e.left) /\ TypOk(e.right)
      [] e.node = "Apply" -> e.typ = "Unknown" /\ TypOk(e.func) /\ TypOk(e.arg)
      [] e.node \in {"Tuple", "List"} ->
             e.typ = "Unknown" /\ \A i \in DOMAIN e.elements : TypOk(e.elements[i])
      [] OTHER -> FALSE

\* C18: every node of every form that parse() has built has type Unknown,
\* except that a Literal node has the primitive type of its kind.
C18_TypUnknown ==
    Parsing => \A i \in DOMAIN ast : TypOk(ast[i])

\* parse() has returned a Binary form with an Int literal on its left and a
\* Binary node on its right.
C18_Witness ==
    /\ Returned
    /\ \E i \in DOMAIN ast :
          /\ ast[i].node = "Binary"
          /\ ast[i].typ = "Unknown"
          /\ ast[i].left.node = "Literal"
          /\ ast[i].left.typ = "Int"
          /\ ast[i].right.node = "Binary"

ListShape(elements) == [node |-> "List", elements |-> elements]

\* Every closed list "[e1, ..., en]" and the tree it is to parse to, and, for
\* "[e1, ..., en" followed by something other than "]", the kind of the token
\* that the expected-"]" error is to be reported at.
ListCases ==
    {[text |-> GroupText(<<"[">>, q[1], <<"]">>, q[2]), shape |-> ListShape(IntShapes(q[1]))] :
        q \in (0..MaxElems) \X Tails}

UnclosedLists ==
    UNION {
        {[text |-> GroupText(<<"[">>, q[1], <<>>, q[2]),
          at   |-> IF q[2] = <<"\n">> THEN "Newline" ELSE "Eof"],
         [text |-> GroupText(<<"[">>, q[1], <<")">>, q[2]), at |-> "RightParen"]} :
        q \in (1..MaxElems) \X Tails}

\* C19: "[]" parses to an empty List with no error, "[e1, ..., en]" to the
\* List of e1..en in order, and when the token after the last element is not
\* "]" the expected-"]" syntax error is reported at that token; each parse
\* runs to the end.
C19_ListLiteral ==
    Parsing =>
        /\ \A c \in ListCases :
              source = c.text =>
                  /\ pc # "panicked"
                  /\ pc = "done" => (Len(ast) >= 1 /\ Shape(ast[1]) = c.shape)
        /\ (pc = "done" /\ source \in {<<"[", "]">>, <<"[", "]", " ">>}) => reports = <<>>
        /\ \A c \in UnclosedLists :
              source = c.text =>
                  /\ pc # "panicked"
                  /\ pc = "done" =>
                        /\ SyntaxReports # {}
                        /\ FirstSyntaxReport.msg = "Expected ']' after list."
                        /\ FirstSyntaxReport.token.kind = c.at

\* C20: for every error reported at position (L, C), report_in has shown
\* line L of the source (lines counted from 1) and C - 1 spaces before the
\* caret, none when C is 0 or 1.
C20_ReportLine ==
    \A i \in DOMAIN reports :
        LET L == position(reports[i].by, reports[i].err)[1]
            C == position(reports[i].by, reports[i].err)[2]
        IN  /\ L \in 1..Len(Lines(source)) =>
                  reports[i].shown.line_contents = Lines(source)[L]
            /\ reports[i].shown.col_space = (IF C > 1 THEN C - 1 ELSE 0)

\* The function-literal texts with the number of cases each declares.
FunctionCases ==
    {[text |-> SugarExample \o t, cases |-> 1] : t \in Tails}
    \cup {[text |-> TwoCaseExample \o t, cases |-> 2] : t \in Tails}

\* C21: a function literal whose case bodies have no "?" parses, with no
\* error reported, to one Func form with its cases in order, each case
\* having exactly one guard, whose condition is the literal true.
C21_FunctionLiteral ==
    Returned =>
        \A c \in FunctionCases :
            source = c.text =>
                /\ reports = <<>>
                /\ Len(ast) = 1
                /\ ast[1].node = "Func"
                /\ Len(ast[1].cases) = c.cases
                /\ \A i \in DOMAIN ast[1].cases :
                      /\ Len(ast[1].cases[i].guards) = 1
                      /\ ast[1].cases[i].guards[1].condition = LiteralBool(TRUE)

\* A scan_token call on a token the scanner has to reject: a character that
\* starts no token, or a string literal with a bad escape or no closing quote.
LexicalError(e) ==
    /\ StartsToken(e)
    /\ \/ CharAt(source, e.sc.start) \in RogueCharacters
       \/ /\ CharAt(source, e.sc.start) = "\""
          /\ StringBody(source, e.sc.start + 1).end \in {"bad_escape", "unterminated"}

ScannerReports == {i \in DOMAIN reports : reports[i].by = "scanner"}

FailedScans == {k \in DOMAIN scanlog : scanlog[k].tag = "Err"}

\* C22: in a run of parse(), every scan_token call on a lexical error fails
\* with an error value (it does not end the run), has consumed at least one
\* character, is reported, and is followed by another scan_token call from
\* where it stopped; and whenever control is back in parse(), `current` is
\* the token of the last scan_token call, which succeeded, and no syntax
\* error is reported at a token that was not scanned.
C22_AdvanceRecovers ==
    Parsing =>
        /\ \A k \in DOMAIN scanlog :
              LexicalError(scanlog[k]) =>
                  /\ scanlog[k].tag = "Err"
                  /\ scanlog[k].sc.current > scanlog[k].from
                  /\ k < Len(scanlog)
                  /\ scanlog[k + 1].from = scanlog[k].sc.current
        /\ Cardinality(ScannerReports) = Cardinality(FailedScans)
        /\ pc \in {"loop", "done"} =>
              /\ scanlog # <<>>
              /\ scanlog[Len(scanlog)].tag = "Ok"
              /\ current = scanlog[Len(scanlog)].tok
        /\ \A i \in SyntaxReports :
              \E k \in DOMAIN scanlog :
                  scanlog[k].tag = "Ok" /\ scanlog[k].tok = reports[i].err.token

\* The infix operators of the rule table that group to the left.
LeftAssociative ==
    {<<"+">>, <<"-">>, <<"*">>, <<"/">>, <<"%">>, <<"^">>, <<"+", "+">>, <<"=", "=">>,
     <<">">>, <<">", "=">>, <<"<">>, <<"<", "=">>, <<"-", ">">>}

\* The infix operators of the rule table that group to the right.
RightAssociative == {<<":">>, <<"<", "-">>}

\* The node that "l op r" is to parse to.
InfixShape(op, l, r) ==
    IF op = <<"-", ">">> THEN ApplyShape(r, l)
    ELSE IF op = <<"<", "-">> THEN ApplyShape(l, r)
    ELSE BinaryShape(op, l, r)

\* Every text "x op y op z" and the grouping it is to parse to.
AssociativityCases ==
    {[text  |-> InfixText(q[2], q[1], <<"b">>, q[1], q[3], q[4]),
      shape |-> InfixShape(q[1],
                    InfixShape(q[1], OperandShape(q[2]), OperandShape(<<"b">>)),
                    OperandShape(q[3]))] :
        q \in LeftAssociative \X Operands \X Operands \X Tails}
    \cup
    {[text  |-> InfixText(q[2], q[1], <<"b">>, q[1], q[3], q[4]),
      shape |-> InfixShape(q[1],
                    OperandShape(q[2]),
                    InfixShape(q[1], OperandShape(<<"b">>), OperandShape(q[3])))] :
        q \in RightAssociative \X Operands \X Operands \X Tails}

\* C23: "x op y op z" parses, running to the end, to (x op y) op z for each
\* left-associative operator op and to x op (y op z) for ":" and "<-".
C23_Associativity ==
    Parsing =>
        \A c \in AssociativityCases :
            source = c.text =>
                /\ pc # "panicked"
                /\ pc = "done" => (Len(ast) >= 1 /\ Shape(ast[1]) = c.shape)

\* C24: when a top-level form has failed with a syntax error reported at
\* token T and parse() is back at the head of its loop, the one token that
\* recovery has passed over is T itself: `previous` is T, so that `current`,
\* the first token of the next form, is the token after T.
C24_RecoveryDropsOneToken ==
    (Parsing /\ pc = "loop" /\ outcome.tag = "Err") => previous = outcome.err.token

\* C25: in a run of parse(), once a scan_token call has returned a token of
\* kind Eof no further scan_token call is made.
C25_NoScanAfterEof ==
    Parsing =>
        \A k \in DOMAIN scanlog :
            (scanlog[k].tag = "Ok" /\ scanlog[k].tok.kind = "Eof") => k = Len(scanlog)

\* The scanner's counters before the k-th scan_token call: what the call
\* before it left, or those of a new scanner.
Before(k) == IF k = 1 THEN Scanner_new ELSE scanlog[k - 1].sc

\* C26: every scan_token call made with the cursor at the end of the source
\* returns a token of kind Eof with an empty lexeme and leaves the cursor,
\* line and column as they were; and when parse() has made such a call after
\* an Eof token, both `previous` and `current` are Eof.
C26_EofIdempotent ==
    /\ \A k \in DOMAIN scanlog :
          Before(k).current >= Len(source) =>
              /\ scanlog[k].tag = "Ok"
              /\ scanlog[k].tok.kind = "Eof"
              /\ scanlog[k].tok.lexeme = <<>>
              /\ scanlog[k].sc.current = Before(k).current
              /\ scanlog[k].sc.line = Before(k).line
              /\ scanlog[k].sc.col = Before(k).col
    /\ (/\ Parsing /\ pc \in {"loop", "done"}
        /\ Len(scanlog) >= 2
        /\ scanlog[Len(scanlog) - 1].tok.kind = "Eof") =>
           (previous.kind = "Eof" /\ current.kind = "Eof")

\* parse() has called scan_token twice more after the call that first
\* returned Eof, on a source that is not empty.
C26_Witness ==
    /\ Parsing
    /\ pc = "done"
    /\ Len(scanlog) >= 4
    /\ scanlog[Len(scanlog) - 3].tok.kind # "Eof"
    /\ scanlog[Len(scanlog) - 2].tok.kind = "Eof"
    /\ scanlog[Len(scanlog) - 1].tok.kind = "Eof"
    /\ scanlog[Len(scanlog)].tok.kind = "Eof"
    /\ previous.kind = "Eof"


====
